---- MODULE Spec2Model ----
(***************************************************************************)
(* Model of the TSDuck STT (ATSC System Time Table) and TOT (DVB Time      *)
(* Offset Table) codecs: tsSTT.cpp and tsTOT.cpp.                          *)
(*                                                                         *)
(* Numbers wider than 31 bits are kept in mixed radix so that no           *)
(* intermediate value leaves the range of the checker's integers:          *)
(*   - a uint32_t is a pair of 16-bit halves [hi, lo];                     *)
(*   - a count of seconds is [d, s]: d days and s < 86400 seconds;         *)
(*   - a ts::Time is [day, ms]: days since 1970-01-01 and the millisecond  *)
(*     of that day.                                                        *)
(* A descriptor is [tag, plen, regs, valid]: its tag, its payload size in  *)
(* bytes, the regions its payload carries (local_time_offset only), and    *)
(* whether the binary descriptor object is non-null and valid.             *)
(***************************************************************************)
EXTENDS Integers, Sequences, FiniteSets, TLC

VARIABLES
    japan,        \* the DuckContext standards include Standards::JAPAN
    tot,          \* TOT being serialized: [utc_time, regions, descs]
    totDlist,     \* descriptor list built by TOT::serializePayload
    totPayload,   \* TOT section payload: [bytes, dl]
    totXml,       \* <TOT> element built by buildXML or given to analyzeXML
    totOut,       \* TOT after deserialization: [valid, ok, utc_time, regions, descs]
    totPc,        \* position in the TOT scenario
    stt,          \* STT being serialized
    sttPayload,   \* STT section payload: [bytes, dl, junk]
    sttOut,       \* STT built from the section: [valid, rec]
    sttPayload2,  \* payload serialized again from sttOut
    sttXml,       \* <STT> element
    sttXmlOut,    \* result of STT::analyzeXML: [ok, rec]
    sttUtc,       \* result of STT::utcTime
    sttPc         \* position in the STT scenario

vars == <<japan, tot, totDlist, totPayload, totXml, totOut, totPc,
          stt, sttPayload, sttOut, sttPayload2, sttXml, sttXmlOut, sttUtc, sttPc>>

totVars == <<japan, tot, totDlist, totPayload, totXml, totOut, totPc>>
sttVars == <<stt, sttPayload, sttOut, sttPayload2, sttXml, sttXmlOut, sttUtc, sttPc>>

None == [none |-> TRUE]

-----------------------------------------------------------------------------
(* Bounds of the model.                                                    *)

\* Largest number of regions of a TOT.
MaxRegions == 320
\* Largest number of descriptors in the "other descriptors" list of a table.
MaxDescs == 17

-----------------------------------------------------------------------------
(* Program constants.                                                      *)

DID_LOCAL_TIME_OFFSET == 88
MAX_REGION == 19
REGION_SIZE == 13
MAX_PRIVATE_SECTION_SIZE == 4096
SHORT_SECTION_HEADER_SIZE == 3
LONG_SECTION_HEADER_SIZE == 8
SECTION_CRC32_SIZE == 4
MAX_DESCRIPTOR_LOOP_LENGTH == 4095
MJD_UNIX_EPOCH == 40587
JST_OFFSET_MS == 32400000
UnixEpochToGPS == 315964800
SEC_PER_DAY == 86400
MS_PER_DAY == 86400000

Min(a, b) == IF a < b THEN a ELSE b

-----------------------------------------------------------------------------
(* ts::Time and the Modified Julian Date wire field.                       *)

TimeEpoch == [day |-> 0, ms |-> 0]

\* Time::UTCToJST: JST is UTC + 9 hours.
UTCToJST(t) ==
    LET m == t.ms + JST_OFFSET_MS
    IN  [day |-> t.day + (m \div MS_PER_DAY), ms |-> m % MS_PER_DAY]

\* Time::JSTToUTC: UTC is JST - 9 hours.
JSTToUTC(t) ==
    LET m == t.ms - JST_OFFSET_MS
    IN  IF m >= 0 THEN [day |-> t.day, ms |-> m]
        ELSE [day |-> t.day - 1, ms |-> m + MS_PER_DAY]

EncodeBCD(v) == (v \div 10) * 16 + (v % 10)
DecodeBCD(b) == (b \div 16) * 10 + (b % 16)

\* PSIBuffer::putFullMJD: 16-bit day count, then hh mm ss in BCD.
EncodeMJD(t) ==
    LET mjd == t.day + MJD_UNIX_EPOCH
        sec == t.ms \div 1000
    IN  << mjd \div 256, mjd % 256,
           EncodeBCD(sec \div 3600), EncodeBCD((sec % 3600) \div 60), EncodeBCD(sec % 60) >>

\* PSIBuffer::getFullMJD on 5 bytes.
DecodeMJD(b) ==
    [day |-> b[1] * 256 + b[2] - MJD_UNIX_EPOCH,
     ms  |-> (DecodeBCD(b[3]) * 3600 + DecodeBCD(b[4]) * 60 + DecodeBCD(b[5])) * 1000]

-----------------------------------------------------------------------------
(* Descriptors and descriptor lists.                                       *)

DescSize(d) == 2 + d.plen

RECURSIVE ListSize(_)
ListSize(dl) == IF dl = <<>> THEN 0 ELSE DescSize(Head(dl)) + ListSize(Tail(dl))

Prefix(s, k) == SubSeq(s, 1, k)

\* Number of leading descriptors of dl that fit in cap bytes.
RECURSIVE FitCount(_, _)
FitCount(dl, cap) ==
    IF dl = <<>> \/ DescSize(Head(dl)) > cap THEN 0
    ELSE 1 + FitCount(Tail(dl), cap - DescSize(Head(dl)))

\* PSIBuffer::putPartialDescriptorList: as many descriptors as fit, from the head.
PutPartialDescriptorList(dl, cap) == Prefix(dl, FitCount(dl, cap))

\* DescriptorList::add(duck, lto): the serialized local_time_offset_descriptor.
LTODescriptor(regs) ==
    [tag |-> DID_LOCAL_TIME_OFFSET, plen |-> REGION_SIZE * Len(regs), regs |-> regs, valid |-> TRUE]

\* LocalTimeOffsetDescriptor(duck, desc): valid when the payload is a whole
\* number of regions.
LTODecode(d) ==
    [valid |-> d.valid /\ d.tag = DID_LOCAL_TIME_OFFSET /\ d.plen % REGION_SIZE = 0,
     regions |-> d.regs]

-----------------------------------------------------------------------------
(* TOT serialization.                                                      *)

DescriptorFullOffByOne(lto) == Len(lto) > MAX_REGION

\* if (lto.regions.size() >= LocalTimeOffsetDescriptor::MAX_REGION)
DescriptorFull(lto) == Len(lto) >= MAX_REGION

\* One iteration of the loop on regions: lto.regions.push_back(*it), then
\* the descriptor is added to the list and cleared when it is full.
RegionStep(st, r) ==
    LET filled == Append(st.lto, r)
    IN  IF DescriptorFull(filled)
        THEN [lto |-> <<>>, dl |-> Append(st.dl, LTODescriptor(filled))]
        ELSE [lto |-> filled, dl |-> st.dl]

\* The loop on regions lo..hi, in order, from the state st: lto is the
\* descriptor being filled, dl the list so far. The range is halved so that
\* the evaluation stays shallow; the iterations run first to last. The test
\* on left always holds (a full descriptor is cleared in the same iteration):
\* it only makes the first half be evaluated before the second starts.
RECURSIVE RegionLoop(_, _, _, _)
RegionLoop(regs, lo, hi, st) ==
    IF lo > hi THEN st
    ELSE IF lo = hi THEN RegionStep(st, regs[lo])
    ELSE LET mid == (lo + hi) \div 2
             left == RegionLoop(regs, lo, mid, st)
         IN  IF Len(left.lto) < MAX_REGION + 1 THEN RegionLoop(regs, mid + 1, hi, left) ELSE left

\* if (!lto.regions.empty()) dlist.add(buf.duck(), lto);
FlushLast(lto, dl) == IF lto # <<>> THEN Append(dl, LTODescriptor(lto)) ELSE dl

\* The descriptor list of serializePayload: region descriptors, then descs.
BuildDlist(t) ==
    LET r == RegionLoop(t.regions, 1, Len(t.regions), [lto |-> <<>>, dl |-> <<>>])
    IN  FlushLast(r.lto, r.dl) \o t.descs

\* The time written by serializePayload.
TOTWireTime(t, jp) == IF jp THEN UTCToJST(t.utc_time) ELSE t.utc_time

\* Maximum payload size of a TOT section: a short private section with a CRC32.
TOTMaxPayload == MAX_PRIVATE_SECTION_SIZE - SHORT_SECTION_HEADER_SIZE - SECTION_CRC32_SIZE

\* Bytes left for descriptors after the MJD and the 2-byte length field.
TOTDescCapacity == Min(TOTMaxPayload - 7, MAX_DESCRIPTOR_LOOP_LENGTH)

\* PSIBuffer::putPartialDescriptorListWithLength: 4 reserved bits set, 12-bit
\* length, then the descriptors that fit.
PutPartialDescriptorListWithLength(dl, cap) ==
    LET written == PutPartialDescriptorList(dl, cap)
        n == ListSize(written)
    IN  [bytes |-> << 240 + (n \div 256), n % 256 >>, dl |-> written]

TOTSerializePayload(t, jp) ==
    LET w == PutPartialDescriptorListWithLength(BuildDlist(t), TOTDescCapacity)
    IN  [bytes |-> EncodeMJD(TOTWireTime(t, jp)) \o w.bytes, dl |-> w.dl]

-----------------------------------------------------------------------------
(* TOT deserialization.                                                    *)

\* regions.insert(regions.end(), lto.regions.begin(), lto.regions.end());
InsertRegions(regions, more) == regions \o more

\* TOT::addDescriptors, from index i of dlist.
RECURSIVE AddDescriptors(_, _, _)
AddDescriptors(acc, dlist, i) ==
    IF i > Len(dlist) THEN acc
    ELSE LET d == dlist[i]
             lto == LTODecode(d)
         IN  IF ~d.valid THEN AddDescriptors(acc, dlist, i + 1)
             ELSE IF d.tag # DID_LOCAL_TIME_OFFSET
             THEN AddDescriptors([acc EXCEPT !.descs = Append(@, d)], dlist, i + 1)
             ELSE IF lto.valid
             THEN AddDescriptors([acc EXCEPT !.regions = InsertRegions(@, lto.regions)], dlist, i + 1)
             ELSE AddDescriptors(acc, dlist, i + 1)

\* PSIBuffer::getDescriptorListWithLength after the 5 bytes of the MJD: the
\* read fails when the length field is missing or does not match the data.
GetDescriptorListWithLength(p) ==
    IF Len(p.bytes) < 7 THEN [error |-> TRUE, dl |-> <<>>]
    ELSE LET n == (p.bytes[6] % 16) * 256 + p.bytes[7]
         IN  IF n # ListSize(p.dl) THEN [error |-> TRUE, dl |-> <<>>]
             ELSE [error |-> FALSE, dl |-> p.dl]

\* The Japan branch of deserializePayload.
TOTReadTime(t, jp) == IF jp THEN JSTToUTC(t) ELSE t

\* TOT::deserializePayload on a cleared table, then the validity decided by
\* AbstractTable::deserialize from the buffer's error flag. A failed
\* getFullMJD gives Time::Epoch; the Japan step applies to it all the same.
TOTDeserialize(p, jp) ==
    LET mjdOk == Len(p.bytes) >= 5
        mjd   == IF mjdOk THEN DecodeMJD(p.bytes) ELSE TimeEpoch
        t     == TOTReadTime(mjd, jp)
        g     == IF mjdOk THEN GetDescriptorListWithLength(p) ELSE [error |-> TRUE, dl |-> <<>>]
        acc   == AddDescriptors([regions |-> <<>>, descs |-> <<>>], g.dl, 1)
    IN  [valid |-> ~g.error, ok |-> ~g.error, utc_time |-> t,
         regions |-> acc.regions, descs |-> acc.descs]

\* DescriptorList::fromXML: every child must convert; those that do are kept.
RECURSIVE FromXML(_)
FromXML(children) ==
    IF children = <<>> THEN [ok |-> TRUE, dl |-> <<>>]
    ELSE LET r == FromXML(Tail(children))
             c == Head(children)
         IN  IF c.valid THEN [ok |-> r.ok, dl |-> <<c>> \o r.dl]
             ELSE [ok |-> FALSE, dl |-> r.dl]

\* TOT::analyzeXML: addDescriptors runs whatever ok is.
TOTAnalyzeXML(x) ==
    LET timeOk == x.utc.k = "time"
        f      == IF timeOk THEN FromXML(x.children) ELSE [ok |-> FALSE, dl |-> <<>>]
        acc    == AddDescriptors([regions |-> <<>>, descs |-> <<>>], f.dl, 1)
    IN  [valid |-> timeOk /\ f.ok, ok |-> timeOk /\ f.ok,
         utc_time |-> IF timeOk THEN x.utc.v ELSE TimeEpoch,
         regions |-> acc.regions, descs |-> acc.descs]

\* One iteration of the loop of buildXML: the descriptor is written as a
\* child element and cleared when it holds MAX_REGION regions.
XMLRegionStep(st, r) ==
    LET filled == Append(st.lto, r)
    IN  IF Len(filled) >= MAX_REGION
        THEN [lto |-> <<>>, children |-> Append(st.children, LTODescriptor(filled))]
        ELSE [lto |-> filled, children |-> st.children]

\* The loop of buildXML on regions lo..hi, in order, from the state st,
\* halved like the loop of serializePayload.
RECURSIVE XMLRegionLoop(_, _, _, _)
XMLRegionLoop(regs, lo, hi, st) ==
    IF lo > hi THEN st
    ELSE IF lo = hi THEN XMLRegionStep(st, regs[lo])
    ELSE LET mid == (lo + hi) \div 2
             left == XMLRegionLoop(regs, lo, mid, st)
         IN  IF Len(left.lto) < MAX_REGION + 1 THEN XMLRegionLoop(regs, mid + 1, hi, left) ELSE left

\* ts::TOT::buildXML
TOTBuildXML(t) ==
    LET r == XMLRegionLoop(t.regions, 1, Len(t.regions), [lto |-> <<>>, children |-> <<>>])
        flushed == IF r.lto # <<>> THEN Append(r.children, LTODescriptor(r.lto)) ELSE r.children
    IN  [utc |-> [k |-> "time", v |-> t.utc_time], children |-> flushed \o t.descs]

-----------------------------------------------------------------------------
(* STT: 32-bit system time and counts of seconds.                          *)

U32Zero == [hi |-> 0, lo |-> 0]

\* Normalized count of seconds: d days and s seconds.
SecNorm(d, s) == [d |-> d + (s \div SEC_PER_DAY), s |-> s % SEC_PER_DAY]

\* The value of a uint32_t as a count of seconds: (hi * 256 * 256) + lo.
SecOfU32(u) ==
    LET a == SecNorm(0, u.hi)
        b == SecNorm(a.d * 256, a.s * 256)
        c == SecNorm(b.d * 256, b.s * 256)
    IN  SecNorm(c.d, c.s + u.lo)

\* Time::UnixTimeToUTC: seconds since 1970-01-01 to a Time in milliseconds.
UnixTimeToUTC(sec) == [day |-> sec.d, ms |-> sec.s * 1000]

\* system_time + Time::UnixEpochToGPS - GPS_UTC_offset, as an exact sum.
GPSToUnixSeconds(st, off) ==
    LET g == SecOfU32(st)
    IN  SecNorm(g.d + (UnixEpochToGPS \div SEC_PER_DAY),
                g.s + (UnixEpochToGPS % SEC_PER_DAY) - off)

\* A count of seconds below 2 * 2^32 reduced modulo 2^32: 2^32 seconds are
\* 49710 days and 23296 seconds.
ToUInt32(sec) ==
    IF sec.d > 49710 \/ (sec.d = 49710 /\ sec.s >= 23296)
    THEN SecNorm(sec.d - 49710, sec.s - 23296)
    ELSE sec

\* The value that Time::UnixTimeToUTC receives. The call passes the sum with
\* no cast; Time::UnixEpochToGPS and the parameter of Time::UnixTimeToUTC are
\* declared outside these files. When either is 32 bits wide (narrow) the
\* value is the sum modulo 2^32, when both are 64 bits wide it is the sum.
UnixTimeArgument(st, off, narrow) ==
    IF narrow THEN ToUInt32(GPSToUnixSeconds(st, off)) ELSE GPSToUnixSeconds(st, off)

\* ts::STT::utcTime, under the declarations chosen by narrow.
utcTime(r, narrow) ==
    IF r.system_time = U32Zero THEN TimeEpoch
    ELSE UnixTimeToUTC(UnixTimeArgument(r.system_time, r.GPS_UTC_offset, narrow))

-----------------------------------------------------------------------------
(* STT binary serialization and deserialization.                           *)

\* Maximum payload size of an STT section: a long private section.
STTMaxPayload == MAX_PRIVATE_SECTION_SIZE - LONG_SECTION_HEADER_SIZE - SECTION_CRC32_SIZE

\* buf.putBits(0xFF, 2): the two low bits of 0xFF.
ReservedBits == 255 % 4

PutDSByteReservedClear(ds, day) == (IF ds THEN 1 ELSE 0) * 128 + (day % 32)

\* putBit(DS_status); putBits(0xFF, 2); putBits(DS_day_of_month, 5)
PutDSByte(ds, day) == (IF ds THEN 1 ELSE 0) * 128 + ReservedBits * 32 + (day % 32)

STTSerializePayload(r) ==
    [bytes |-> << r.protocol_version,
                  r.system_time.hi \div 256, r.system_time.hi % 256,
                  r.system_time.lo \div 256, r.system_time.lo % 256,
                  r.GPS_UTC_offset,
                  PutDSByte(r.DS_status, r.DS_day_of_month),
                  r.DS_hour >>,
     dl    |-> PutPartialDescriptorList(r.descs, STTMaxPayload - 8),
     junk  |-> 0]

GetDayFourBits(b) == b % 16

\* skipBits(2); getBits<uint8_t>(5)
GetDay(b) == b % 32

\* getBit() != 0
GetDSStatus(b) == b \div 128 # 0

\* PSIBuffer::getDescriptorList: junk = 1 is a stray byte that is left
\* unread, junk = 2 a descriptor whose declared length overruns the payload.
GetDescriptorList(p) ==
    [error |-> p.junk = 2, remaining |-> IF p.junk = 1 THEN 1 ELSE 0, dl |-> p.dl]

\* ts::STT::deserializePayload. A read past the end sets the buffer's error.
STTDeserializePayload(p) ==
    IF Len(p.bytes) < 8 THEN [error |-> TRUE, remaining |-> 0, rec |-> None]
    ELSE LET b == p.bytes
             g == GetDescriptorList(p)
         IN  [error |-> g.error, remaining |-> g.remaining,
              rec |-> [protocol_version |-> b[1],
                       system_time |-> [hi |-> b[2] * 256 + b[3], lo |-> b[4] * 256 + b[5]],
                       GPS_UTC_offset |-> b[6],
                       DS_status |-> GetDSStatus(b[7]),
                       DS_day_of_month |-> GetDay(b[7]),
                       DS_hour |-> b[8],
                       descs |-> g.dl]]

SectionInvalidRemainingOnly(d) == d.remaining > 0

\* if (buf.error() || buf.remainingReadBytes() > 0) invalidate();
SectionInvalid(d) == d.error \/ d.remaining > 0

\* ts::STT::STT(DuckContext&, const Section&)
STTFromSection(p) ==
    LET d == STTDeserializePayload(p)
    IN  [valid |-> ~SectionInvalid(d), rec |-> d.rec]

-----------------------------------------------------------------------------
(* STT XML serialization and deserialization.                              *)

Absent == [k |-> "absent"]
Malformed == [k |-> "bad"]
IntAttr(v) == [k |-> "int", v |-> v]
BoolAttr(v) == [k |-> "bool", v |-> v]

\* ts::STT::buildXML
STTBuildXML(r) ==
    [protocol_version |-> IntAttr(r.protocol_version),
     system_time      |-> IntAttr(r.system_time),
     GPS_UTC_offset   |-> IntAttr(r.GPS_UTC_offset),
     DS_status        |-> BoolAttr(r.DS_status),
     DS_day_of_month  |-> IF r.DS_day_of_month > 0 THEN IntAttr(r.DS_day_of_month % 32) ELSE Absent,
     DS_hour          |-> IF r.DS_day_of_month > 0 \/ r.DS_hour > 0 THEN IntAttr(r.DS_hour) ELSE Absent,
     children         |-> r.descs]

\* xml::Element::getIntAttribute<INT>(value, name, required, defValue, minValue, maxValue)
GetIntAttribute(a, required, def, min, max) ==
    IF a.k = "absent" THEN [ok |-> ~required, v |-> def]
    ELSE IF a.k = "int" /\ a.v >= min /\ a.v <= max THEN [ok |-> TRUE, v |-> a.v]
    ELSE [ok |-> FALSE, v |-> def]

\* getIntAttribute<uint32_t>(system_time, u"system_time", true)
GetUInt32Attribute(a, required) ==
    IF a.k = "absent" THEN [ok |-> ~required, v |-> U32Zero]
    ELSE IF a.k = "int" /\ a.v.hi <= 65535 THEN [ok |-> TRUE, v |-> a.v]
    ELSE [ok |-> FALSE, v |-> U32Zero]

\* xml::Element::getBoolAttribute(value, name, required)
GetBoolAttribute(a, required) ==
    IF a.k = "absent" THEN [ok |-> ~required, v |-> FALSE]
    ELSE IF a.k = "bool" THEN [ok |-> TRUE, v |-> a.v]
    ELSE [ok |-> FALSE, v |-> FALSE]

GetDSDayUnchecked(a) == GetIntAttribute(a, FALSE, 0, 0, 255)

\* getIntAttribute<uint8_t>(DS_day_of_month, u"DS_day_of_month", false, 0, 0, 31)
GetDSDay(a) == GetIntAttribute(a, FALSE, 0, 0, 31)

\* getIntAttribute<uint8_t>(DS_hour, u"DS_hour", false, 0, 0, 23)
GetDSHour(a) == GetIntAttribute(a, FALSE, 0, 0, 23)

\* ts::STT::analyzeXML
STTAnalyzeXML(x) ==
    LET pv   == GetIntAttribute(x.protocol_version, FALSE, 0, 0, 255)
        st   == GetUInt32Attribute(x.system_time, TRUE)
        off  == GetIntAttribute(x.GPS_UTC_offset, TRUE, 0, 0, 255)
        ds   == GetBoolAttribute(x.DS_status, TRUE)
        day  == GetDSDay(x.DS_day_of_month)
        hour == GetDSHour(x.DS_hour)
        f    == FromXML(x.children)
        ok   == pv.ok /\ st.ok /\ off.ok /\ ds.ok /\ day.ok /\ hour.ok /\ f.ok
    IN  [ok  |-> ok,
         rec |-> IF ok
                 THEN [protocol_version |-> pv.v, system_time |-> st.v,
                       GPS_UTC_offset |-> off.v, DS_status |-> ds.v,
                       DS_day_of_month |-> day.v, DS_hour |-> hour.v, descs |-> f.dl]
                 ELSE None]

-----------------------------------------------------------------------------
(* Inputs.                                                                 *)

\* A region is identified by a small number standing for its fields.
RegionsOf(n, k) == [i \in 1..n |-> (i * k) % 5]

OtherDescs(n, big) ==
    [i \in 1..n |-> [tag |-> 128 + (i % 3), plen |-> IF big THEN 255 ELSE i % 4,
                     regs |-> <<>>, valid |-> TRUE]]

TimeChoices ==
    { [day |-> 0, ms |-> 0],
      [day |-> 18000, ms |-> 57599000],
      [day |-> 24000, ms |-> 86399000] }

TOTDescChoices == { OtherDescs(0, FALSE), OtherDescs(1, FALSE), OtherDescs(2, TRUE) }

TOTRecords ==
    { [utc_time |-> t, regions |-> RegionsOf(n, k), descs |-> d] :
        t \in TimeChoices, n \in 0..MaxRegions, k \in 1..2, d \in TOTDescChoices }

\* Descriptors as they can arrive in a section or in an XML element.
GoodLTO == LTODescriptor(<<1, 2>>)
EmptyLTO == LTODescriptor(<<>>)
BadLTO == [tag |-> DID_LOCAL_TIME_OFFSET, plen |-> 2 * REGION_SIZE + 5, regs |-> <<3, 4>>, valid |-> TRUE]
OtherDesc == [tag |-> 128, plen |-> 3, regs |-> <<>>, valid |-> TRUE]
InvalidDesc == [tag |-> 129, plen |-> 0, regs |-> <<>>, valid |-> FALSE]

WireDescs == {GoodLTO, EmptyLTO, BadLTO, OtherDesc}

SeqsUpTo2(S) == {<<>>} \cup {<<a>> : a \in S} \cup {<<a, b>> : a \in S, b \in S}

LengthBytes(n) == << 240 + (n \div 256), n % 256 >>

TOTWirePayloads ==
    { [bytes |-> Prefix(EncodeMJD(t) \o LengthBytes(0), l), dl |-> <<>>] :
        t \in TimeChoices, l \in 0..6 }
    \cup
    { [bytes |-> EncodeMJD(t) \o LengthBytes(ListSize(dl) + extra), dl |-> dl] :
        t \in TimeChoices, dl \in SeqsUpTo2(WireDescs), extra \in 0..1 }

TOTXmlElements ==
    { [utc |-> u, children |-> c] :
        u \in {[k |-> "absent"]} \cup {[k |-> "time", v |-> t] : t \in TimeChoices},
        c \in SeqsUpTo2(WireDescs \cup {InvalidDesc}) }

U32Choices ==
    { [hi |-> 0, lo |-> 0], [hi |-> 0, lo |-> 1], [hi |-> 15258, lo |-> 51712],
      [hi |-> 32768, lo |-> 0], [hi |-> 65535, lo |-> 65535] }

STTDescChoices ==
    { OtherDescs(n, TRUE) : n \in 0..MaxDescs } \cup { OtherDescs(n, FALSE) : n \in 1..2 }

STTRecords ==
    { [protocol_version |-> pv, system_time |-> st, GPS_UTC_offset |-> off,
       DS_status |-> ds, DS_day_of_month |-> day, DS_hour |-> hour, descs |-> d] :
        pv \in {0, 255}, st \in U32Choices, off \in {0, 18}, ds \in BOOLEAN,
        day \in {0, 1, 31, 33}, hour \in {0, 23, 24, 255}, d \in STTDescChoices }

\* Sections as received: any reserved bits, truncated headers, trailing junk.
STTWirePayloads ==
    { [bytes |-> Prefix(<< pv, st.hi \div 256, st.hi % 256, st.lo \div 256, st.lo % 256, 18,
                           b7, hour >>, l),
       dl    |-> IF l = 8 THEN d ELSE <<>>,
       junk  |-> IF l = 8 THEN j ELSE 0] :
        pv \in {0, 1}, st \in {[hi |-> 0, lo |-> 0], [hi |-> 65535, lo |-> 65535]},
        b7 \in {0, 31, 32, 64, 96, 128, 191, 255},
        hour \in {0, 23, 255}, l \in 0..8, d \in {OtherDescs(0, FALSE), OtherDescs(2, FALSE)},
        j \in 0..2 }

IntChoices(S) == {Absent, Malformed} \cup {IntAttr(v) : v \in S}

STTXmlElements ==
    { [protocol_version |-> pv, system_time |-> st, GPS_UTC_offset |-> off, DS_status |-> ds,
       DS_day_of_month |-> day, DS_hour |-> hour, children |-> c] :
        pv \in IntChoices({0, 255, 256}),
        st \in IntChoices({[hi |-> 0, lo |-> 0], [hi |-> 65535, lo |-> 65535], [hi |-> 65536, lo |-> 0]}),
        off \in IntChoices({18, 256}),
        ds \in {Absent, Malformed, BoolAttr(TRUE)},
        day \in IntChoices({0, 31, 32}),
        hour \in IntChoices({23, 24}),
        c \in {<<>>, <<OtherDesc>>, <<OtherDesc, InvalidDesc>>} }

UtcInputs ==
    { [protocol_version |-> 0, system_time |-> [hi |-> h, lo |-> l], GPS_UTC_offset |-> off,
       DS_status |-> FALSE, DS_day_of_month |-> 0, DS_hour |-> 0, descs |-> <<>>] :
        h \in {0, 1, 15258, 32768, 60714, 60715, 65535}, l \in {0, 1, 49792, 51712, 65535},
        off \in {0, 1, 18, 255} }

-----------------------------------------------------------------------------
(* The state machine.                                                      *)

TOTIdle ==
    /\ japan = FALSE /\ tot = None /\ totDlist = <<>> /\ totPayload = None
    /\ totXml = None /\ totOut = None /\ totPc = "idle"

STTIdle ==
    /\ stt = None /\ sttPayload = None /\ sttOut = None /\ sttPayload2 = None
    /\ sttXml = None /\ sttXmlOut = None /\ sttUtc = None /\ sttPc = "idle"

InitTOT ==
    /\ japan \in BOOLEAN
    /\ totDlist = <<>> /\ totOut = None
    /\ \/ /\ tot \in TOTRecords /\ totPayload = None /\ totXml = None /\ totPc = "rec"
       \/ /\ tot = None /\ totPayload \in TOTWirePayloads /\ totXml = None /\ totPc = "wire"
       \/ /\ tot = None /\ totPayload = None /\ totXml \in TOTXmlElements /\ totPc = "xml"
    /\ STTIdle

InitSTT ==
    /\ sttOut = None /\ sttPayload2 = None /\ sttXmlOut = None /\ sttUtc = None
    /\ \/ /\ stt \in STTRecords /\ sttPayload = None /\ sttXml = None /\ sttPc = "rec"
       \/ /\ stt = None /\ sttPayload \in STTWirePayloads /\ sttXml = None /\ sttPc = "wire"
       \/ /\ stt = None /\ sttPayload = None /\ sttXml \in STTXmlElements /\ sttPc = "xml"
       \/ /\ stt \in UtcInputs /\ sttPayload = None /\ sttXml = None /\ sttPc = "time"
    /\ TOTIdle

Init == InitTOT \/ InitSTT

\* TOT::serializePayload
TOTSerialize ==
    /\ totPc = "rec"
    /\ totDlist' = BuildDlist(tot)
    /\ totPayload' = TOTSerializePayload(tot, japan)
    /\ totPc' = "encoded"
    /\ UNCHANGED <<japan, tot, totXml, totOut, sttVars>>

\* TOT::deserializePayload, called by AbstractTable::deserialize
TOTDeserializeSection ==
    /\ totPc \in {"encoded", "wire"}
    /\ totOut' = TOTDeserialize(totPayload, japan)
    /\ totPc' = "decoded"
    /\ UNCHANGED <<japan, tot, totDlist, totPayload, totXml, sttVars>>

\* TOT::buildXML
TOTToXML ==
    /\ totPc = "rec"
    /\ totXml' = TOTBuildXML(tot)
    /\ totPc' = "built"
    /\ UNCHANGED <<japan, tot, totDlist, totPayload, totOut, sttVars>>

\* TOT::analyzeXML
TOTFromXML ==
    /\ totPc \in {"built", "xml"}
    /\ totOut' = TOTAnalyzeXML(totXml)
    /\ totPc' = "analyzed"
    /\ UNCHANGED <<japan, tot, totDlist, totPayload, totXml, sttVars>>

\* STT::serializePayload
STTSerialize ==
    /\ sttPc = "rec"
    /\ sttPayload' = STTSerializePayload(stt)
    /\ sttPc' = "encoded"
    /\ UNCHANGED <<stt, sttOut, sttPayload2, sttXml, sttXmlOut, sttUtc, totVars>>

\* STT::STT(DuckContext&, const Section&)
STTSectionConstructor ==
    /\ sttPc \in {"encoded", "wire"}
    /\ sttOut' = STTFromSection(sttPayload)
    /\ sttPc' = "decoded"
    /\ UNCHANGED <<stt, sttPayload, sttPayload2, sttXml, sttXmlOut, sttUtc, totVars>>

\* STT::serializePayload of the table that was just deserialized
STTSerializeAgain ==
    /\ sttPc = "decoded" /\ sttOut.valid
    /\ sttPayload2' = STTSerializePayload(sttOut.rec)
    /\ sttPc' = "reencoded"
    /\ UNCHANGED <<stt, sttPayload, sttOut, sttXml, sttXmlOut, sttUtc, totVars>>

\* STT::buildXML of the table that was just deserialized
STTToXML ==
    /\ sttPc = "decoded" /\ sttOut.valid
    /\ sttXml' = STTBuildXML(sttOut.rec)
    /\ sttPc' = "built"
    /\ UNCHANGED <<stt, sttPayload, sttOut, sttPayload2, sttXmlOut, sttUtc, totVars>>

\* STT::analyzeXML
STTFromXML ==
    /\ sttPc \in {"built", "xml"}
    /\ sttXmlOut' = STTAnalyzeXML(sttXml)
    /\ sttPc' = "analyzed"
    /\ UNCHANGED <<stt, sttPayload, sttOut, sttPayload2, sttXml, sttUtc, totVars>>

\* STT::utcTime; the width of the declarations it is compiled against is
\* not fixed by these files, so both results are successors.
STTUtcTime ==
    /\ sttPc = "time"
    /\ \E narrow \in BOOLEAN : sttUtc' = utcTime(stt, narrow)
    /\ sttPc' = "utc"
    /\ UNCHANGED <<stt, sttPayload, sttOut, sttPayload2, sttXml, sttXmlOut, totVars>>

Next ==
    \/ TOTSerialize
    \/ TOTDeserializeSection
    \/ TOTToXML
    \/ TOTFromXML
    \/ STTSerialize
    \/ STTSectionConstructor
    \/ STTSerializeAgain
    \/ STTToXML
    \/ STTFromXML
    \/ STTUtcTime

Spec == Init /\ [][Next]_vars

-----------------------------------------------------------------------------
(* Properties of TOT serialization.                                        *)

CeilDiv(n, d) == (n + d - 1) \div d

\* The region descriptors at the head of the list built by serializePayload.
TOTChunks == Prefix(totDlist, Len(totDlist) - Len(tot.descs))

ChunkSizes == [j \in 1..Len(TOTChunks) |-> Len(TOTChunks[j].regs)]

\* C1: serializePayload cuts the regions into consecutive chunks by capacity
\* only: ceil(n/19) local_time_offset descriptors, all of 19 regions except
\* possibly the last, which holds n mod 19 regions when that is not zero; no
\* descriptor is empty; 0 regions give none, 38 give two, 45 give 19, 19, 7.
C1_Chunking ==
    (totPc \in {"encoded", "decoded"} /\ tot # None) =>
        LET n == Len(tot.regions)
            c == TOTChunks
        IN  /\ Len(c) = CeilDiv(n, MAX_REGION)
            /\ \A j \in 1..Len(c) :
                  /\ c[j].tag = DID_LOCAL_TIME_OFFSET
                  /\ Len(c[j].regs) > 0
                  /\ j < Len(c) => Len(c[j].regs) = MAX_REGION
                  /\ c[j].regs = SubSeq(tot.regions, MAX_REGION * (j - 1) + 1,
                                        MAX_REGION * (j - 1) + Len(c[j].regs))
            /\ Len(c) > 0 =>
                  Len(c[Len(c)].regs) = (IF n % MAX_REGION # 0 THEN n % MAX_REGION ELSE MAX_REGION)
            /\ n = 0 => c = <<>>
            /\ n = 38 => ChunkSizes = <<19, 19>>
            /\ n = 45 => ChunkSizes = <<19, 19, 7>>

C1_Witness ==
    /\ totPc = "encoded" /\ tot # None
    /\ Len(tot.regions) = 45
    /\ ChunkSizes = <<19, 19, 7>>

\* C2: for every TOT record, with the same profile at both ends, deserializing
\* what was serialized gives back the UTC time and the flat sequence of
\* regions in the same order.
C2_RoundTripAnyRecord ==
    (totPc = "decoded" /\ tot # None) =>
        /\ totOut.utc_time = tot.utc_time
        /\ totOut.regions = tot.regions

\* C3: every descriptor of the list built by serializePayload is written to
\* the payload, whatever the number of regions and of other descriptors.
C3_NothingDropped ==
    totPc = "encoded" => totPayload.dl = totDlist

-----------------------------------------------------------------------------
(* Properties of deserialization errors.                                   *)

TOTPayloadSize == Len(totPayload.bytes) + ListSize(totPayload.dl)
STTPayloadSize == Len(sttPayload.bytes) + ListSize(sttPayload.dl) + sttPayload.junk

\* C6: a truncated payload never gives a valid table: an STT payload of less
\* than 8 bytes and a TOT payload of less than 5 bytes end invalid, and the
\* STT section constructor invalidates the table when bytes remain unread.
C6_TruncatedIsInvalid ==
    /\ (totPc = "decoded" /\ TOTPayloadSize < 5) => ~totOut.valid
    /\ (sttPc = "decoded" /\ STTPayloadSize < 8) => ~sttOut.valid
    /\ (sttPc = "decoded" /\ sttPayload.junk = 1) => ~sttOut.valid

C6_Witness ==
    /\ sttPc = "decoded"
    /\ STTPayloadSize = 7
    /\ ~sttOut.valid

\* True when the descriptor list holds a descriptor that addDescriptors drops.
HasDroppedDescriptor(dl) ==
    \E i \in 1..Len(dl) :
        \/ ~dl[i].valid
        \/ dl[i].tag = DID_LOCAL_TIME_OFFSET /\ dl[i].plen % REGION_SIZE # 0

\* C9: TOT deserialization never ignores an error silently: when the list
\* read from the payload or from XML holds a null or invalid descriptor, or a
\* local_time_offset descriptor that fails to decode, the table is invalid.
C9_NoSilentDrop ==
    /\ (totPc = "decoded" /\ Len(totPayload.bytes) >= 7
          /\ ~GetDescriptorListWithLength(totPayload).error
          /\ HasDroppedDescriptor(totPayload.dl)) => ~totOut.valid
    /\ (totPc = "analyzed" /\ HasDroppedDescriptor(totXml.children)) => ~totOut.ok

-----------------------------------------------------------------------------
(* Properties of the STT binary format.                                    *)

\* The fields are within the widths of the data model.
InWidths(r) ==
    /\ r.protocol_version \in 0..255
    /\ r.system_time.hi \in 0..65535 /\ r.system_time.lo \in 0..65535
    /\ r.GPS_UTC_offset \in 0..255
    /\ r.DS_day_of_month \in 0..31
    /\ r.DS_hour \in 0..255

\* The descriptors fit in one section: 4096 - 8 - 4 bytes less the 8 of the header.
STTFits(r) == ListSize(r.descs) <= 4096 - 8 - 4 - 8

\* C4: for every STT whose fields are within the widths of the data model
\* and whose descriptors fit in one section, deserializing the serialized
\* payload gives a valid table equal to the original in every field and in
\* the descriptor sequence.
C4_STTRoundTrip ==
    (sttPc = "decoded" /\ stt # None /\ InWidths(stt) /\ STTFits(stt)) =>
        /\ sttOut.valid
        /\ sttOut.rec = stt

C4_Witness ==
    /\ sttPc = "decoded" /\ stt # None
    /\ stt.DS_day_of_month = 31 /\ stt.DS_hour = 23
    /\ stt.system_time = [hi |-> 65535, lo |-> 65535]
    /\ stt.protocol_version = 255
    /\ Len(stt.descs) = 2
    /\ sttOut.valid /\ sttOut.rec = stt

\* The payload with its two reserved bits set to r.
WithReserved(p, r) ==
    [p EXCEPT !.bytes[7] = (@ \div 128) * 128 + r * 32 + (@ % 32)]

ReservedOf(p) == (p.bytes[7] \div 32) % 4

\* C7: serialization writes the two reserved bits as 1,1 and deserialization
\* ignores them: payloads that differ only in these bits give equal tables,
\* and serializing the table read from a well-formed payload gives the same
\* payload with both reserved bits set.
C7_ReservedBits ==
    /\ sttPc = "encoded" => ReservedOf(sttPayload) = 3
    /\ sttPc = "reencoded" =>
          /\ ReservedOf(sttPayload2) = 3
          /\ sttPayload2 = WithReserved(sttPayload, 3)
          /\ \A r \in 0..3 : STTFromSection(WithReserved(sttPayload, r)) = sttOut

C7_Witness ==
    /\ sttPc = "reencoded" /\ stt = None
    /\ ReservedOf(sttPayload) = 0
    /\ Len(sttPayload.dl) = 2
    /\ sttPayload2 # sttPayload
    /\ sttPayload2 = WithReserved(sttPayload, 3)

-----------------------------------------------------------------------------
(* Properties of STT::utcTime.                                             *)

\* The 32-bit pair whose value is the number of seconds from the GPS epoch
\* (3657 days after 1970-01-01) to t, plus off. No reduction: hi may exceed
\* 16 bits.
GPSSecondsOf(t, off) ==
    LET d   == t.day - 3657
        low == d * (86400 - 65536) + (t.ms \div 1000) + off
    IN  [hi |-> d + (low \div 65536), lo |-> low % 65536]

\* C5: utcTime is Time::Epoch exactly when system_time is 0; otherwise it is
\* the instant system_time + (seconds from 1970-01-01 to 1980-01-06) -
\* GPS_UTC_offset seconds after the Unix epoch, a whole number of seconds,
\* for every 32-bit system_time, with no reduction modulo 2^32.
C5_UtcTime ==
    sttPc = "utc" =>
        /\ sttUtc = TimeEpoch <=> stt.system_time = U32Zero
        /\ stt.system_time # U32Zero =>
              /\ sttUtc.ms % 1000 = 0
              /\ sttUtc.ms \in 0..(MS_PER_DAY - 1)
              /\ GPSSecondsOf(sttUtc, stt.GPS_UTC_offset) = stt.system_time
        /\ (stt.system_time = [hi |-> 15258, lo |-> 51712] /\ stt.GPS_UTC_offset = 18) =>
              sttUtc = [day |-> 15231, ms |-> 6382000]

-----------------------------------------------------------------------------
(* Properties of the STT XML format.                                       *)

WellTyped(a, max) == a.k = "int" /\ a.v \in 0..max

\* The conditions of acceptance that C8 lists.
ListedConditions(x) ==
    /\ x.system_time.k = "int" /\ x.system_time.v.hi \in 0..65535
    /\ WellTyped(x.GPS_UTC_offset, 255)
    /\ x.DS_status.k = "bool"
    /\ x.DS_day_of_month.k # "absent" => WellTyped(x.DS_day_of_month, 31)
    /\ x.DS_hour.k # "absent" => WellTyped(x.DS_hour, 23)
    /\ \A i \in 1..Len(x.children) : x.children[i].valid

ValueOrZero(a) == IF a.k = "absent" THEN 0 ELSE a.v

\* What an accepted element leaves in the table.
AcceptedValues(x, r) ==
    /\ r.protocol_version = ValueOrZero(x.protocol_version)
    /\ r.system_time = x.system_time.v
    /\ r.GPS_UTC_offset = x.GPS_UTC_offset.v
    /\ r.DS_status = x.DS_status.v
    /\ r.DS_day_of_month = ValueOrZero(x.DS_day_of_month)
    /\ r.DS_hour = ValueOrZero(x.DS_hour)
    /\ r.descs = x.children

\* C8 as stated: analyzeXML accepts exactly when system_time, GPS_UTC_offset
\* and DS_status are present and well-typed, DS_day_of_month (when present)
\* is in 0..31, DS_hour (when present) is in 0..23 and the children parse.
C8_AcceptIffListed ==
    sttPc = "analyzed" =>
        /\ sttXmlOut.ok <=> ListedConditions(sttXml)
        /\ sttXmlOut.ok => AcceptedValues(sttXml, sttXmlOut.rec)

\* C8 amended: the same, with one more condition of acceptance: the
\* protocol_version attribute, when present, is an integer in 0..255.
C8_AcceptIffListedAndVersion ==
    sttPc = "analyzed" =>
        /\ sttXmlOut.ok <=>
              /\ ListedConditions(sttXml)
              /\ sttXml.protocol_version.k # "absent" => WellTyped(sttXml.protocol_version, 255)
        /\ sttXmlOut.ok => AcceptedValues(sttXml, sttXmlOut.rec)
        /\ sttXml.DS_day_of_month = IntAttr(32) => ~sttXmlOut.ok

C8_Witness ==
    /\ sttPc = "analyzed" /\ sttOut = None
    /\ sttXml.protocol_version = Absent
    /\ sttXml.DS_day_of_month = IntAttr(31)
    /\ sttXml.DS_hour = Absent
    /\ sttXmlOut.ok
    /\ sttXmlOut.rec.protocol_version = 0
    /\ sttXmlOut.rec.DS_day_of_month = 31
    /\ sttXmlOut.rec.DS_hour = 0

\* C10: every STT obtained by a successful binary deserialization survives
\* the XML path: analyzeXML accepts the element built by buildXML and gives
\* a table equal to the original.
C10_XmlRoundTrip ==
    (sttPc = "analyzed" /\ sttOut # None) =>
        /\ sttXmlOut.ok
        /\ sttXmlOut.rec = sttOut.rec

====
